---- MODULE Spec2Model ----
(***************************************************************************)
(* Model of syzygy/scripts/asan/minidump_symbolizer.py: the stack frame    *)
(* normalizer (_STACK_FRAME_RE, _CHROME_RE, NormalizeChromeSymbol,         *)
(* NormalizeStackTrace) as operators over character sequences, and the     *)
(* debugger session of ProcessMinidump / _Command as a state machine of    *)
(* the driver and the cdb subprocess joined by its stdin and stdout pipes. *)
(*                                                                         *)
(* A Python string is a sequence of one-character strings.  An optional    *)
(* value (a regex group that may be None) is a sequence of length 0 (None) *)
(* or 1 (the value), so that None and the empty string stay distinct.      *)
(***************************************************************************)
EXTENDS Integers, Sequences, FiniteSets, TLC

VARIABLES
    \* ---- the normalizer applied as a pure function
    stack_trace,            \* the argument of NormalizeStackTrace
    output_trace,           \* its result
    renormalized,           \* the result of normalizing output_trace again
    npc,                    \* "input" | "normalized" | "renormalized" | "idle"
    sym,                    \* the argument of NormalizeChromeSymbol
    normalized_symbol,      \* its result
    renormalized_symbol,    \* the result of normalizing normalized_symbol
    \* ---- ProcessMinidump and _Command (the driver)
    pdb_path,               \* optional symbol path (None or a string)
    pc,                     \* the call site ProcessMinidump is at
    io,                     \* "write": about to write, "read": in the read loop
    lines,                  \* _Command's local list (its last return value)
    raw_lines,              \* what readline() returned to this call, in order
    echoes_read,            \* how many echo lines of commands have been read
    eof_reads,              \* readline() calls answered by end-of-stream
    asan_crash_stack,
    bad_access_info_frame,
    bad_access_info,
    alloc_stack,
    free_stack,
    crash_stack,
    waited,                 \* debugger.wait() has returned
    outcome,                \* how control left ProcessMinidump, or "running"
    report,                 \* optional ASanReport returned
    \* ---- the debugger subprocess and its pipes
    stdin_log,              \* everything written to debugger.stdin, in order
    dbg_taken,              \* how many stdin entries the debugger has read
    dbg_state,              \* "starting" | "idle" | "busy" | "exited", and with
                            \* pipes of finite capacity "quitting" |
                            \* "blocked_stdout" | "blocked_stderr"
    dbg_lines,              \* how many lines of ordinary output it has printed
    marker_printed,         \* whether one of them held the marker token
    stdout_pipe,            \* the lines it printed that the driver has not read
    stderr_pipe             \* how many lines sit in its error pipe, which
                            \* nothing reads

norm_vars == <<stack_trace, output_trace, renormalized, npc,
               sym, normalized_symbol, renormalized_symbol>>
driver_vars == <<pdb_path, pc, io, lines, raw_lines, echoes_read, eof_reads, asan_crash_stack,
                 bad_access_info_frame, bad_access_info, alloc_stack, free_stack,
                 crash_stack, waited, outcome, report>>
dbg_vars == <<stdin_log, dbg_taken, dbg_state, dbg_lines, marker_printed,
             stdout_pipe, stderr_pipe>>
vars == <<norm_vars, driver_vars, dbg_vars>>

----------------------------------------------------------------------------
(* Bounds of the model *)

\* longest generated raw line, counted in pieces of LinePieces
MaxPieces == 5
\* longest stack built from SampleLines
MaxStackLen == 2
\* how many lines a pipe holds before a write to it blocks
PipeCapacity == 1
\* lines of ordinary output the debugger emits in one session
MaxOutLines == 2
\* iterations of the read loop at end-of-stream that are followed
MaxEofReads == 1

----------------------------------------------------------------------------
(* Strings of the source *)

None == <<>>
Some(v) == <<v>>

_SENTINEL == <<"E","N","D","E","N","D","E","N","D">>

_BAD_ACCESS_INFO_FRAME ==
    <<"a","s","a","n","_","r","t","l","!","a","g","e","n","t",":",":",
      "a","s","a","n",":",":","A","s","a","n","R","u","n","t","i","m","e",
      ":",":","O","n","E","r","r","o","r">>

chrome_dll == <<"c","h","r","o","m","e","_","d","l","l">>

unknown == <<"u","n","k","n","o","w","n">>

----------------------------------------------------------------------------
(* Character classes and string helpers *)

\* [0-9A-F] under re.IGNORECASE
HexDigit == {"0","1","2","3","4","5","6","7","8","9",
             "a","b","c","d","e","f","A","B","C","D","E","F"}

\* [_0-9A-F] under re.IGNORECASE
ChromeSuffixChar == HexDigit \cup {"_"}

\* what str.rstrip() removes
Whitespace == {" ", "\t", "\n", "\r"}

\* s[i:j] of Python for 0-based i, j written 1-based inclusive
Slice(s, i, j) == SubSeq(s, i, j)

\* needle in hay (Python's substring test; hay.find(needle) # -1)
Contains(hay, needle) ==
    \E i \in 0..(Len(hay) - Len(needle)) :
        \A k \in 1..Len(needle) : hay[i + k] = needle[k]

\* str.rstrip() with no argument
RECURSIVE rstrip(_)
rstrip(s) ==
    IF s # <<>> /\ s[Len(s)] \in Whitespace
    THEN rstrip(SubSeq(s, 1, Len(s) - 1))
    ELSE s

RECURSIVE Flatten(_)
Flatten(ss) == IF ss = <<>> THEN <<>> ELSE Head(ss) \o Flatten(Tail(ss))

SeqsUpTo(S, n) == UNION {[1..k -> S] : k \in 0..n}

----------------------------------------------------------------------------
(* _STACK_FRAME_RE: ^ args (module (!location)? | address) $                *)

\* ([0-9A-F]+\ +)+ : runs of hex digits, each followed by a run of spaces
IsArgs(s) ==
    /\ s # <<>>
    /\ s[1] \in HexDigit
    /\ s[Len(s)] = " "
    /\ \A i \in 1..Len(s) : s[i] \in HexDigit \cup {" "}

\* [^ ]+
IsModule(s) == s # <<>> /\ \A i \in 1..Len(s) : s[i] # " "

\* 0x[0-9a-f]+ under re.IGNORECASE
IsAddress(s) ==
    /\ Len(s) >= 3
    /\ s[1] = "0"
    /\ s[2] \in {"x", "X"}
    /\ \A i \in 3..Len(s) : s[i] \in HexDigit

\* Every way the pattern can match the whole line: args is line[1..a]; in the
\* first alternative module is line[a+1..m], followed by the end of the line or
\* by "!" and the location (.* to the end); in the second alternative the rest
\* of the line is the address.
ArgsEnds(line) == {a \in 1..Len(line) : IsArgs(Slice(line, 1, a))}

ModuleEnds(line, a) ==
    {m \in (a + 1)..Len(line) :
        /\ IsModule(Slice(line, a + 1, m))
        /\ (m = Len(line) \/ line[m + 1] = "!")}

FrameParses(line) ==
    UNION {{[a |-> a, alt |-> 1, m |-> m] : m \in ModuleEnds(line, a)}
           \cup (IF IsAddress(Slice(line, a + 1, Len(line)))
                 THEN {[a |-> a, alt |-> 2, m |-> Len(line)]}
                 ELSE {})
           : a \in ArgsEnds(line)}

\* The order in which the backtracking matcher tries them: the greedy args
\* group gives up characters last (longer args first), the first alternative
\* is tried before the second, and the greedy module gives up characters
\* before the args group does (longer module first).
TriedBefore(p, q) ==
    \/ p.a > q.a
    \/ p.a = q.a /\ p.alt < q.alt
    \/ p.a = q.a /\ p.alt = q.alt /\ p.m > q.m

FirstParse(line) ==
    CHOOSE p \in FrameParses(line) :
        \A q \in FrameParses(line) \ {p} : TriedBefore(p, q)

Matches(line) == FrameParses(line) # {}

\* The groups of the match object (m.group('address'), 'module', 'location')
MatchGroups(line) ==
    LET p == FirstParse(line) IN
    IF p.alt = 1
    THEN [address  |-> None,
          module   |-> Some(Slice(line, p.a + 1, p.m)),
          location |-> IF p.m = Len(line) THEN None
                       ELSE Some(Slice(line, p.m + 2, Len(line)))]
    ELSE [address  |-> Some(Slice(line, p.a + 1, Len(line))),
          module   |-> None,
          location |-> None]

\* Python truth value of an optional string: None and '' are false
Truthy(opt) == opt # None /\ opt[1] # <<>>

----------------------------------------------------------------------------
(* _CHROME_RE and NormalizeChromeSymbol *)

\* "chrome" under re.IGNORECASE at s[i..i+5], then at least one suffix char
ChromeAt(s, i) ==
    /\ i + 6 <= Len(s)
    /\ s[i]     \in {"c", "C"}
    /\ s[i + 1] \in {"h", "H"}
    /\ s[i + 2] \in {"r", "R"}
    /\ s[i + 3] \in {"o", "O"}
    /\ s[i + 4] \in {"m", "M"}
    /\ s[i + 5] \in {"e", "E"}
    /\ s[i + 6] \in ChromeSuffixChar

\* the last index of the greedy [_0-9A-F]+ run that starts at s[j]
RECURSIVE SuffixEnd(_, _)
SuffixEnd(s, j) ==
    IF j + 1 <= Len(s) /\ s[j + 1] \in ChromeSuffixChar
    THEN SuffixEnd(s, j + 1)
    ELSE j

\* _CHROME_RE.sub('chrome_dll', s) from position i on: leftmost matches,
\* not overlapping, each replaced by the token
RECURSIVE ChromeSubFrom(_, _)
ChromeSubFrom(s, i) ==
    IF i > Len(s) THEN <<>>
    ELSE IF ChromeAt(s, i)
         THEN chrome_dll \o ChromeSubFrom(s, SuffixEnd(s, i + 6) + 1)
         ELSE <<s[i]>> \o ChromeSubFrom(s, i + 1)

NormalizeChromeSymbol(symbol) == ChromeSubFrom(symbol, 1)

----------------------------------------------------------------------------
(* NormalizeStackTrace *)

\* the element one matching line appends to output_trace (lines 82-94)
FrameText(line) ==
    LET g == MatchGroups(line) IN
    IF Truthy(g.address)
    THEN g.address[1]
    ELSE LET module == NormalizeChromeSymbol(g.module[1])
             location == IF Truthy(g.location)
                         THEN NormalizeChromeSymbol(g.location[1])
                         ELSE unknown
         IN  module \o <<"!">> \o location

\* the loop with `break` where the source has `continue`
RECURSIVE NormalizeFrom_Break(_, _, _)
NormalizeFrom_Break(trace, i, out) ==
    IF i > Len(trace) THEN out
    ELSE IF ~Matches(trace[i])
         THEN out
         ELSE NormalizeFrom_Break(trace, i + 1, Append(out, FrameText(trace[i])))

\* the for loop of lines 78-94, from line i on
RECURSIVE NormalizeFrom(_, _, _)
NormalizeFrom(trace, i, out) ==
    IF i > Len(trace) THEN out
    ELSE IF ~Matches(trace[i])
         THEN NormalizeFrom(trace, i + 1, out)
         ELSE NormalizeFrom(trace, i + 1, Append(out, FrameText(trace[i])))

NormalizeStackTrace(trace) == NormalizeFrom(trace, 1, <<>>)

----------------------------------------------------------------------------
(* Inputs of the normalizer *)

\* pieces of which raw lines are generated: a hex digit, a space, the
\* module separator, a letter that is no hex digit, the address prefix and
\* the product name
LinePieces == {<<"a">>, <<" ">>, <<"!">>, <<"m">>, <<"0","x">>,
               <<"c","h","r","o","m","e">>}

GenLines == {Flatten(ps) : ps \in SeqsUpTo(LinePieces, MaxPieces)}

Line_blank == <<>>
Line_header == <<"C","h","i","l","d","E","B","P"," ","R","e","t","A","d","d","r">>
Line_address == <<"0","a"," ","0","x","1","f">>
Line_module == <<"0","a"," ","f","o","o">>
Line_located == <<"0","a"," ","f","o","o","!","b","a","r"," ","b","a","z">>
Line_garbage == <<"0","a"," ","f","o","o"," ","b","a","r">>
Line_chrome == <<"0","a"," ","c","h","r","o","m","e","1","f","!","c","h","r","o","m","e","_","2"," ","x">>
Line_OnError == <<"0","a"," ","a","s","a","n","_","r","t","l","!","a","g","e","n","t",":",":","a","s","a","n",":",":","A","s","a","n","R","u","n","t","i","m","e",":",":","O","n","E","r","r","o","r">>

SampleLines == {Line_blank, Line_header, Line_address, Line_module,
                Line_located, Line_garbage, Line_chrome, Line_OnError}

NormInputs == {<<l>> : l \in GenLines} \cup SeqsUpTo(SampleLines, MaxStackLen)

----------------------------------------------------------------------------
(* The session at rest, and the normalizer at rest *)

DriverIdle ==
    /\ pdb_path = None
    /\ pc = "idle"
    /\ io = "write"
    /\ lines = <<>>
    /\ raw_lines = <<>>
    /\ echoes_read = 0
    /\ eof_reads = 0
    /\ asan_crash_stack = <<>>
    /\ bad_access_info_frame = 0
    /\ bad_access_info = <<>>
    /\ alloc_stack = <<>>
    /\ free_stack = <<>>
    /\ crash_stack = <<>>
    /\ waited = FALSE
    /\ outcome = "running"
    /\ report = None
    /\ stdin_log = <<>>
    /\ dbg_taken = 0
    /\ dbg_state = "exited"
    /\ dbg_lines = 0
    /\ marker_printed = FALSE
    /\ stdout_pipe = <<>>
    /\ stderr_pipe = 0

SymbolIdle ==
    /\ sym = <<>>
    /\ normalized_symbol = <<>>
    /\ renormalized_symbol = <<>>

NormIdle ==
    /\ stack_trace = <<>>
    /\ output_trace = <<>>
    /\ renormalized = <<>>
    /\ npc = "idle"
    /\ SymbolIdle

----------------------------------------------------------------------------
(* The normalizer applied to an input, and to its own output *)

InitNorm ==
    /\ stack_trace \in NormInputs
    /\ output_trace = <<>>
    /\ renormalized = <<>>
    /\ npc = "input"
    /\ SymbolIdle
    /\ DriverIdle

Normalize ==
    /\ npc = "input"
    /\ output_trace' = NormalizeStackTrace(stack_trace)
    /\ npc' = "normalized"
    /\ UNCHANGED <<stack_trace, renormalized, sym, normalized_symbol,
                   renormalized_symbol, driver_vars, dbg_vars>>

Renormalize ==
    /\ npc = "normalized"
    /\ renormalized' = NormalizeStackTrace(output_trace)
    /\ npc' = "renormalized"
    /\ UNCHANGED <<stack_trace, output_trace, sym, normalized_symbol,
                   renormalized_symbol, driver_vars, dbg_vars>>

NextNorm == Normalize \/ Renormalize

SpecNorm == InitNorm /\ [][NextNorm]_vars

----------------------------------------------------------------------------
(* NormalizeChromeSymbol applied to a symbol, and to its own result *)

SymbolInputs == GenLines \cup {chrome_dll}

InitSymbol ==
    /\ sym \in SymbolInputs
    /\ normalized_symbol = <<>>
    /\ renormalized_symbol = <<>>
    /\ stack_trace = <<>>
    /\ output_trace = <<>>
    /\ renormalized = <<>>
    /\ npc = "symbol"
    /\ DriverIdle

NormalizeSymbol ==
    /\ npc = "symbol"
    /\ normalized_symbol' = NormalizeChromeSymbol(sym)
    /\ npc' = "symbol_normalized"
    /\ UNCHANGED <<stack_trace, output_trace, renormalized, sym,
                   renormalized_symbol, driver_vars, dbg_vars>>

RenormalizeSymbol ==
    /\ npc = "symbol_normalized"
    /\ renormalized_symbol' = NormalizeChromeSymbol(normalized_symbol)
    /\ npc' = "symbol_renormalized"
    /\ UNCHANGED <<stack_trace, output_trace, renormalized, sym,
                   normalized_symbol, driver_vars, dbg_vars>>

NextSymbol == NormalizeSymbol \/ RenormalizeSymbol

SpecSymbol == InitSymbol /\ [][NextSymbol]_vars

----------------------------------------------------------------------------
(* The commands of a session *)

_GET_BAD_ACCESS_INFO_COMMAND == "dt error_info"
_GET_ALLOC_STACK_COMMAND ==
    "dps @@(&error_info->alloc_stack) l@@(error_info->alloc_stack_size);"
_GET_FREE_STACK_COMMAND ==
    "dps @@(&error_info->free_stack) l@@(error_info->free_stack_size);"

HexDigits == <<"0","1","2","3","4","5","6","7","8","9","A","B","C","D","E","F">>

\* '%X' % n
RECURSIVE ToHex(_)
ToHex(n) ==
    IF n < 16 THEN <<HexDigits[n + 1]>>
    ELSE ToHex(n \div 16) \o <<HexDigits[(n % 16) + 1]>>

\* The call sites of _Command in ProcessMinidump, in program order
SetupSites == <<"sympath", "reload_chrome", "reload_rtl", "symfix">>
MainSites == <<"lines", "kv", "frame", "dt", "alloc", "free", "ecxr", "kv2">>
CommandSites == {"sympath", "reload_chrome", "reload_rtl", "symfix",
                 "lines", "kv", "frame", "dt", "alloc", "free", "ecxr", "kv2"}

\* The command string each call site passes to _Command: a fixed text and,
\* for the two formatted commands, the formatted argument
CommandAt(site) ==
    CASE site = "sympath"       -> [verb |-> ".sympath", arg |-> pdb_path[1]]
      [] site = "reload_chrome" -> [verb |-> ".reload /fi chrome.dll", arg |-> <<>>]
      [] site = "reload_rtl"    -> [verb |-> ".reload /fi syzyasan_rtl.dll", arg |-> <<>>]
      [] site = "symfix"        -> [verb |-> ".symfix", arg |-> <<>>]
      [] site = "lines"         -> [verb |-> ".lines", arg |-> <<>>]
      [] site = "kv"            -> [verb |-> "kv", arg |-> <<>>]
      [] site = "frame"         -> [verb |-> ".frame", arg |-> ToHex(bad_access_info_frame)]
      [] site = "dt"            -> [verb |-> _GET_BAD_ACCESS_INFO_COMMAND, arg |-> <<>>]
      [] site = "alloc"         -> [verb |-> _GET_ALLOC_STACK_COMMAND, arg |-> <<>>]
      [] site = "free"          -> [verb |-> _GET_FREE_STACK_COMMAND, arg |-> <<>>]
      [] site = "ecxr"          -> [verb |-> ".ecxr", arg |-> <<>>]
      [] site = "kv2"           -> [verb |-> "kv", arg |-> <<>>]

\* what _Command writes: command + '; .echo %s\n' % _SENTINEL
WithEcho(command) ==
    [verb |-> command.verb, arg |-> command.arg, echo |-> Some(_SENTINEL)]

\* 'q\n'
QuitLine == [verb |-> "q", arg |-> <<>>, echo |-> None]

\* the test as `line == _SENTINEL`
SentinelIn_Equals(line) == line = _SENTINEL

\* the test with its operands exchanged, `line in _SENTINEL`
SentinelIn_Swapped(line) == Contains(_SENTINEL, line)

\* `_SENTINEL in line` (line 65)
SentinelIn(line) == Contains(line, _SENTINEL)

\* the loop without its `break`: every frame that lacks the name is counted
CountUntilFrame_NoBreak(frames, n) ==
    n + Cardinality({j \in 1..Len(frames) :
                        ~Contains(frames[j], _BAD_ACCESS_INFO_FRAME)})

\* the for loop of lines 120-125: the frames counted before the break
RECURSIVE CountUntilFrame(_, _)
CountUntilFrame(frames, n) ==
    IF n >= Len(frames) THEN n
    ELSE IF ~Contains(frames[n + 1], _BAD_ACCESS_INFO_FRAME)
         THEN CountUntilFrame(frames, n + 1)
         ELSE n

\* ASanReport(...)
\* the report with the alloc and free stacks passed in each other's place
ASanReport_Swapped(info, crash, alloc, free) ==
    [bad_access_info |-> info, crash_stack |-> crash,
     alloc_stack |-> free, free_stack |-> alloc]

ASanReport(info, crash, alloc, free) ==
    [bad_access_info |-> info, crash_stack |-> crash,
     alloc_stack |-> alloc, free_stack |-> free]

----------------------------------------------------------------------------
(* The debugger subprocess *)

Out_OnError == Line_OnError
Out_frame == <<"0","b"," ","f","o","o","!","b","a","r"," ">>
Out_marker == <<"x"," ","E","N","D","E","N","D","E","N","D">>
Out_blank == <<>>

\* the lines of ordinary output the debugger may print
SessionLines == {Out_OnError, Out_frame, Out_marker, Out_blank}

\* The debugger takes the next line of its standard input: it exits on q
\* and starts executing any other command.
DbgTake ==
    /\ dbg_state \in {"starting", "idle"}
    /\ dbg_taken < Len(stdin_log)
    /\ dbg_taken' = dbg_taken + 1
    /\ dbg_state' = IF stdin_log[dbg_taken + 1].verb = "q" THEN "exited" ELSE "busy"
    /\ UNCHANGED <<norm_vars, driver_vars, stdin_log, dbg_lines, marker_printed,
                   stdout_pipe, stderr_pipe>>

\* The debugger prints one line: of its banner while starting, of the
\* command's output while executing a command.
DbgEmit ==
    /\ dbg_state \in {"starting", "busy"}
    /\ dbg_lines < MaxOutLines
    /\ dbg_lines' = dbg_lines + 1
    /\ \E text \in SessionLines :
          /\ stdout_pipe' = Append(stdout_pipe, [text |-> text \o <<"\n">>,
                                                 of |-> dbg_taken, echo |-> FALSE])
          /\ marker_printed' = (marker_printed \/ Contains(text, _SENTINEL))
    /\ UNCHANGED <<norm_vars, driver_vars, stdin_log, dbg_taken, dbg_state,
                   stderr_pipe>>

\* The debugger executes the .echo that ends the command line.
DbgEcho ==
    /\ dbg_state = "busy"
    /\ stdout_pipe' = Append(stdout_pipe,
                              [text |-> stdin_log[dbg_taken].echo[1] \o <<"\n">>,
                               of |-> dbg_taken, echo |-> TRUE])
    /\ dbg_state' = "idle"
    /\ UNCHANGED <<norm_vars, driver_vars, stdin_log, dbg_taken, dbg_lines,
                   marker_printed, stderr_pipe>>

\* The debugger process ends without having been told to quit.
DbgExit ==
    /\ dbg_state \in {"starting", "idle", "busy"}
    /\ dbg_state' = "exited"
    /\ UNCHANGED <<norm_vars, driver_vars, stdin_log, dbg_taken, dbg_lines,
                   marker_printed, stdout_pipe, stderr_pipe>>

----------------------------------------------------------------------------
(* ProcessMinidump and _Command *)

\* the '.lines' call placed under the symbol-path test with the setup calls
FirstSite_LinesUnderOverride == IF pdb_path # None THEN "sympath" ELSE "kv"

FirstSite == IF pdb_path # None THEN "sympath" ELSE "lines"

\* the order of calls without the switch to the exception context
NextSite_SkipEcxr(site) ==
    CASE site = "sympath"       -> "reload_chrome"
      [] site = "reload_chrome" -> "reload_rtl"
      [] site = "reload_rtl"    -> "symfix"
      [] site = "symfix"        -> "lines"
      [] site = "lines"         -> "kv"
      [] site = "kv"            -> "frame"
      [] site = "frame"         -> "dt"
      [] site = "dt"            -> "alloc"
      [] site = "alloc"         -> "free"
      [] site = "free"          -> "kv2"
      [] site = "ecxr"          -> "kv2"
      [] site = "kv2"           -> "quit"

\* the call site that follows `site` when its call returns normally
NextSite(site) ==
    CASE site = "sympath"       -> "reload_chrome"
      [] site = "reload_chrome" -> "reload_rtl"
      [] site = "reload_rtl"    -> "symfix"
      [] site = "symfix"        -> "lines"
      [] site = "lines"         -> "kv"
      [] site = "kv"            -> "frame"
      [] site = "frame"         -> "dt"
      [] site = "dt"            -> "alloc"
      [] site = "alloc"         -> "free"
      [] site = "free"          -> "ecxr"
      [] site = "ecxr"          -> "kv2"
      [] site = "kv2"           -> "quit"

Init ==
    /\ NormIdle
    /\ pdb_path \in {None, Some(<<"p","d","b">>)}
    /\ pc = FirstSite
    /\ io = "write"
    /\ lines = <<>>
    /\ raw_lines = <<>>
    /\ echoes_read = 0
    /\ eof_reads = 0
    /\ asan_crash_stack = <<>>
    /\ bad_access_info_frame = 0
    /\ bad_access_info = <<>>
    /\ alloc_stack = <<>>
    /\ free_stack = <<>>
    /\ crash_stack = <<>>
    /\ waited = FALSE
    /\ outcome = "running"
    /\ report = None
    /\ stdin_log = <<>>
    /\ dbg_taken = 0
    /\ dbg_state = "starting"
    /\ dbg_lines = 0
    /\ marker_printed = FALSE
    /\ stdout_pipe = <<>>
    /\ stderr_pipe = 0

\* _Command, line 59: the write of the command and the echo request
CommandWrite ==
    /\ pc \in CommandSites
    /\ io = "write"
    /\ dbg_state # "exited"
    /\ stdin_log' = Append(stdin_log, WithEcho(CommandAt(pc)))
    /\ lines' = <<>>
    /\ raw_lines' = <<>>
    /\ io' = "read"
    /\ UNCHANGED <<norm_vars, pdb_path, pc, echoes_read, eof_reads,
                   asan_crash_stack, bad_access_info_frame, bad_access_info,
                   alloc_stack, free_stack, crash_stack, waited, outcome, report,
                   dbg_taken, dbg_state, dbg_lines, marker_printed, stdout_pipe,
                   stderr_pipe>>

\* What ProcessMinidump does with the list a call of _Command returned, up to
\* its next call (lines 118-143).
Resume(reply) ==
    CASE pc = "kv" ->
           LET n == CountUntilFrame(NormalizeStackTrace(reply), 0) IN
           /\ asan_crash_stack' = reply
           /\ bad_access_info_frame' = n
           /\ pc' = IF n = -1 THEN "quit_notfound" ELSE NextSite(pc)
           /\ UNCHANGED <<bad_access_info, alloc_stack, free_stack,
                          crash_stack, outcome>>
      [] pc = "dt" ->
           \* bad_access_info.pop(0) raises IndexError on an empty list
           /\ IF reply = <<>>
              THEN /\ pc' = "raised"
                   /\ outcome' = "IndexError"
                   /\ bad_access_info' = reply
              ELSE /\ pc' = NextSite(pc)
                   /\ outcome' = outcome
                   /\ bad_access_info' = Tail(reply)
           /\ UNCHANGED <<asan_crash_stack, bad_access_info_frame, alloc_stack,
                          free_stack, crash_stack>>
      [] pc = "alloc" ->
           /\ alloc_stack' = NormalizeStackTrace(reply)
           /\ pc' = NextSite(pc)
           /\ UNCHANGED <<asan_crash_stack, bad_access_info_frame,
                          bad_access_info, free_stack, crash_stack, outcome>>
      [] pc = "free" ->
           /\ free_stack' = NormalizeStackTrace(reply)
           /\ pc' = NextSite(pc)
           /\ UNCHANGED <<asan_crash_stack, bad_access_info_frame,
                          bad_access_info, alloc_stack, crash_stack, outcome>>
      [] pc = "kv2" ->
           /\ crash_stack' = NormalizeStackTrace(reply)
           /\ pc' = NextSite(pc)
           /\ UNCHANGED <<asan_crash_stack, bad_access_info_frame,
                          bad_access_info, alloc_stack, free_stack, outcome>>
      [] OTHER ->
           /\ pc' = NextSite(pc)
           /\ UNCHANGED <<asan_crash_stack, bad_access_info_frame,
                          bad_access_info, alloc_stack, free_stack,
                          crash_stack, outcome>>

\* _Command, lines 62-68: one iteration of the read loop on a line the
\* debugger has written; at the marker the call returns and ProcessMinidump
\* goes on to its next call.
CommandReadLine ==
    /\ pc \in CommandSites
    /\ io = "read"
    /\ stdout_pipe # <<>>
    /\ stdout_pipe' = Tail(stdout_pipe)
    /\ raw_lines' = Append(raw_lines, Head(stdout_pipe).text)
    /\ echoes_read' = echoes_read + (IF Head(stdout_pipe).echo THEN 1 ELSE 0)
    /\ LET line == rstrip(Head(stdout_pipe).text) IN
       IF SentinelIn(line)
       THEN /\ io' = "write"
            /\ lines' = lines
            /\ Resume(lines)
       ELSE /\ lines' = Append(lines, line)
            /\ UNCHANGED <<pc, io, asan_crash_stack, bad_access_info_frame,
                           bad_access_info, alloc_stack, free_stack,
                           crash_stack, outcome>>
    /\ UNCHANGED <<norm_vars, pdb_path, eof_reads, waited, report,
                   stdin_log, dbg_taken, dbg_state, dbg_lines, marker_printed,
                   stderr_pipe>>

\* _Command, lines 62-67, once the debugger has exited and its output is
\* exhausted: readline() returns '' at once, which holds no marker and is
\* appended, and the loop goes round again.
CommandReadEof ==
    /\ pc \in CommandSites
    /\ io = "read"
    /\ stdout_pipe = <<>>
    /\ dbg_state = "exited"
    /\ eof_reads < MaxEofReads
    /\ eof_reads' = eof_reads + 1
    /\ raw_lines' = Append(raw_lines, <<>>)
    /\ lines' = Append(lines, rstrip(<<>>))
    /\ UNCHANGED <<norm_vars, pdb_path, pc, io, echoes_read, asan_crash_stack,
                   bad_access_info_frame, bad_access_info, alloc_stack,
                   free_stack, crash_stack, waited, outcome, report, dbg_vars>>

\* A write to the standard input of a debugger that has exited (lines 59,
\* 129, 146) raises IOError (broken pipe), which nothing catches.
WriteBrokenPipe ==
    /\ pc \in CommandSites \cup {"quit", "quit_notfound"}
    /\ io = "write"
    /\ dbg_state = "exited"
    /\ pc' = "raised"
    /\ outcome' = "IOError"
    /\ UNCHANGED <<norm_vars, pdb_path, io, lines, raw_lines, echoes_read, eof_reads,
                   asan_crash_stack, bad_access_info_frame, bad_access_info,
                   alloc_stack, free_stack, crash_stack, waited, report, dbg_vars>>

\* lines 129 and 146: debugger.stdin.write('q\n')
Quit ==
    /\ pc \in {"quit", "quit_notfound"}
    /\ dbg_state # "exited"
    /\ stdin_log' = Append(stdin_log, QuitLine)
    /\ pc' = IF pc = "quit" THEN "wait" ELSE "wait_notfound"
    /\ UNCHANGED <<norm_vars, pdb_path, io, lines, raw_lines, echoes_read, eof_reads,
                   asan_crash_stack, bad_access_info_frame, bad_access_info,
                   alloc_stack, free_stack, crash_stack, waited, outcome, report,
                   dbg_taken, dbg_state, dbg_lines, marker_printed, stdout_pipe,
                   stderr_pipe>>

\* lines 130-133 and 147-154: debugger.wait() returns once the process has
\* exited; then the report is built and returned, or (after line 130) the
\* diagnostic is printed, whose %d is given the file name, a string.
Wait ==
    /\ pc \in {"wait", "wait_notfound"}
    /\ dbg_state = "exited"
    /\ waited' = TRUE
    /\ IF pc = "wait"
       THEN /\ report' = Some(ASanReport(bad_access_info, crash_stack,
                                         alloc_stack, free_stack))
            /\ outcome' = "report"
            /\ pc' = "done"
       ELSE /\ report' = report
            /\ outcome' = "TypeError"
            /\ pc' = "raised"
    /\ UNCHANGED <<norm_vars, pdb_path, io, lines, raw_lines, echoes_read, eof_reads,
                   asan_crash_stack, bad_access_info_frame, bad_access_info,
                   alloc_stack, free_stack, crash_stack, dbg_vars>>

Next ==
    \/ CommandWrite
    \/ CommandReadLine
    \/ CommandReadEof
    \/ WriteBrokenPipe
    \/ Quit
    \/ Wait
    \/ DbgTake
    \/ DbgEmit
    \/ DbgEcho
    \/ DbgExit

Spec == Init /\ [][Next]_vars

----------------------------------------------------------------------------
(* The session over pipes of finite capacity (lines 100-104: stdin, stdout *)
(* and stderr of the debugger are all pipes; the driver reads stdout only  *)
(* inside _Command and never reads stderr).  The debugger here answers     *)
(* every command, ends each answer with the echo, and exits once it has    *)
(* read 'q'; a write to a full pipe blocks it until the pipe is read.      *)

\* The debugger reads its next command line; on 'q' it starts to quit.
DbgTakePipe ==
    /\ dbg_state \in {"starting", "idle"}
    /\ dbg_taken < Len(stdin_log)
    /\ dbg_taken' = dbg_taken + 1
    /\ dbg_state' = IF stdin_log[dbg_taken + 1].verb = "q" THEN "quitting" ELSE "busy"
    /\ UNCHANGED <<norm_vars, driver_vars, stdin_log, dbg_lines, marker_printed,
                   stdout_pipe, stderr_pipe>>

\* A line of output, written when the output pipe has room for it
DbgEmitPipe ==
    /\ Len(stdout_pipe) < PipeCapacity
    /\ DbgEmit

\* The echo, written when the output pipe has room for it
DbgEchoPipe ==
    /\ Len(stdout_pipe) < PipeCapacity
    /\ DbgEcho

\* While executing a command the debugger writes a line to its error
\* stream; with the error pipe full the write never returns.
DbgWarn ==
    /\ dbg_state = "busy"
    /\ dbg_lines < MaxOutLines
    /\ dbg_lines' = dbg_lines + 1
    /\ IF stderr_pipe < PipeCapacity
       THEN /\ stderr_pipe' = stderr_pipe + 1
            /\ dbg_state' = dbg_state
       ELSE /\ stderr_pipe' = stderr_pipe
            /\ dbg_state' = "blocked_stderr"
    /\ UNCHANGED <<norm_vars, driver_vars, stdin_log, dbg_taken, marker_printed,
                   stdout_pipe>>

\* After 'q' the debugger prints a line on its way out; the driver is past
\* its last read, so with the output pipe full the write never returns.
DbgFarewell ==
    /\ dbg_state = "quitting"
    /\ dbg_lines < MaxOutLines
    /\ dbg_lines' = dbg_lines + 1
    /\ IF Len(stdout_pipe) < PipeCapacity
       THEN /\ stdout_pipe' = Append(stdout_pipe, [text |-> Out_frame \o <<"\n">>,
                                                   of |-> dbg_taken, echo |-> FALSE])
            /\ dbg_state' = dbg_state
       ELSE /\ stdout_pipe' = stdout_pipe
            /\ dbg_state' = "blocked_stdout"
    /\ UNCHANGED <<norm_vars, driver_vars, stdin_log, dbg_taken, marker_printed,
                   stderr_pipe>>

\* The debugger process ends, having read 'q'.
DbgQuit ==
    /\ dbg_state = "quitting"
    /\ dbg_state' = "exited"
    /\ UNCHANGED <<norm_vars, driver_vars, stdin_log, dbg_taken, dbg_lines,
                   marker_printed, stdout_pipe, stderr_pipe>>

NextPipes ==
    \/ CommandWrite
    \/ CommandReadLine
    \/ Quit
    \/ Wait
    \/ DbgTakePipe
    \/ DbgEmitPipe
    \/ DbgEchoPipe
    \/ DbgWarn
    \/ DbgFarewell
    \/ DbgQuit

SpecPipes == Init /\ [][NextPipes]_vars

----------------------------------------------------------------------------
(* Properties of a session *)

Written(verb) == {i \in 1..Len(stdin_log) : stdin_log[i].verb = verb}

\* the first 'kv' call has returned and its reply has been scanned
Scanned == Written("kv") # {} /\ pc # "kv"

\* the positions of a normalized stack that hold the name
SentinelFrames(frames) ==
    {j \in 1..Len(frames) : Contains(frames[j], _BAD_ACCESS_INFO_FRAME)}

ExtractionVerbs == {".frame", _GET_BAD_ACCESS_INFO_COMMAND,
                    _GET_ALLOC_STACK_COMMAND, _GET_FREE_STACK_COMMAND, ".ecxr"}

\* the number a string of hex digits denotes
RECURSIVE HexValue(_)
HexValue(s) ==
    IF s = <<>> THEN 0
    ELSE 16 * HexValue(SubSeq(s, 1, Len(s) - 1))
         + (CHOOSE v \in 0..15 : HexDigits[v + 1] = s[Len(s)])

\* C1: when no frame of the normalized first crash stack holds the name
\* (an empty stack included), the session ends as FrameNotFound: no
\* select-frame, error-info, alloc/free or exception-context command is
\* written and no report is returned.
C1_FrameNotFound ==
    (Scanned /\ SentinelFrames(NormalizeStackTrace(asan_crash_stack)) = {}) =>
        /\ \A i \in 1..Len(stdin_log) : stdin_log[i].verb \notin ExtractionVerbs
        /\ report = None

\* C2: whenever control has left ProcessMinidump (by returning, with the
\* frame not found, or by a failure while stripping the error-info header),
\* quit has been written exactly once and the process has been waited for.
C2_QuitAndWaitOnExit ==
    (pc \in {"done", "raised"} /\ outcome # "IOError") =>
        /\ Cardinality(Written("q")) = 1
        /\ waited

\* C3: once readline() has been answered by end-of-stream, _Command has
\* stopped reading and the session is aborted as a ProtocolError after the
\* process was cleaned up.
C3_EofAborts ==
    eof_reads > 0 =>
        /\ io # "read"
        /\ outcome = "ProtocolError"
        /\ waited

\* C4: when some normalized frame of the first crash stack holds the name,
\* the index written with .frame is the number of normalized frames before
\* the first such frame, and at most one .frame is written in a session.
C4_SelectsFrameK ==
    /\ Cardinality(Written(".frame")) <= 1
    /\ \A i \in Written(".frame") :
          LET found == SentinelFrames(NormalizeStackTrace(asan_crash_stack))
              k == HexValue(stdin_log[i].arg)
          IN  found # {} =>
                  /\ k + 1 \in found
                  /\ \A j \in found : j >= k + 1

C4_Witness ==
    \E i \in Written(".frame") :
        LET found == SentinelFrames(NormalizeStackTrace(asan_crash_stack))
        IN  /\ found # {}
            /\ 1 \notin found
            /\ stdin_log[i].arg = <<"1">>

\* the call sites a session goes through, in order
SitesRun == IF pdb_path # None THEN SetupSites \o MainSites ELSE MainSites

CallIndex(site) == CHOOSE i \in 1..Len(SitesRun) : SitesRun[i] = site

\* a call of _Command has returned and no later call has begun
Returned == io = "write" /\ raw_lines # <<>>

\* s is t without its trailing whitespace
StrippedOf(s, t) ==
    /\ Len(s) <= Len(t)
    /\ SubSeq(t, 1, Len(s)) = s
    /\ \A i \in (Len(s) + 1)..Len(t) : t[i] \in Whitespace
    /\ (s = <<>> \/ s[Len(s)] \notin Whitespace)

\* each call has written its command with the echo request once, and
\* nothing else
WroteOnce ==
    (pc \in CommandSites /\ io = "read") =>
        /\ Len(stdin_log) = CallIndex(pc)
        /\ stdin_log[Len(stdin_log)] = WithEcho(CommandAt(pc))

\* the call stopped at the first line that holds the marker, which is not
\* in its result
StoppedAtMarker ==
    /\ (pc \in CommandSites /\ io = "read") =>
          /\ Len(lines) = Len(raw_lines)
          /\ \A i \in 1..Len(raw_lines) : ~Contains(raw_lines[i], _SENTINEL)
    /\ Returned =>
          /\ Len(raw_lines) = Len(lines) + 1
          /\ Contains(raw_lines[Len(raw_lines)], _SENTINEL)
          /\ \A i \in 1..Len(lines) : ~Contains(raw_lines[i], _SENTINEL)

\* C9 as stated: the result holds exactly the lines read before the marker
\* line (each without its line terminator), in the order received.
C9_ExactLines ==
    /\ WroteOnce
    /\ StoppedAtMarker
    /\ Returned => \A i \in 1..Len(lines) : raw_lines[i] = lines[i] \o <<"\n">>

\* C9, amended: the result holds the lines read before the first line that
\* holds the marker, in the order received, each with its trailing
\* whitespace (its terminator included) removed; the command and the echo
\* request are written once; the marker line is not in the result and
\* nothing after it is read by that call.
C9_StrippedLines ==
    /\ WroteOnce
    /\ StoppedAtMarker
    /\ \A i \in 1..Len(lines) :
          i <= Len(raw_lines) /\ StrippedOf(lines[i], raw_lines[i])

C9_Witness ==
    /\ Returned
    /\ \E i \in 1..Len(lines) : raw_lines[i] # lines[i] \o <<"\n">>
    /\ stdout_pipe # <<>>

\* the commands written whose echo line the driver has not read yet
Outstanding ==
    Cardinality({i \in 1..Len(stdin_log) : stdin_log[i].echo # None}) - echoes_read

\* C10 as stated: at most one command is outstanding, and none when quit
\* is written.
C10_NoOverlap ==
    /\ Outstanding <= 1
    /\ Written("q") # {} => Outstanding = 0

\* C10, amended: as long as the debugger has printed the marker token only
\* in echo lines, at most one command is outstanding, and none when quit is
\* written.
C10_NoOverlapUnlessMarkerPrinted == ~marker_printed => C10_NoOverlap

C10_Witness ==
    /\ ~marker_printed
    /\ dbg_lines > 0
    /\ Written("q") # {}

----------------------------------------------------------------------------
(* Properties of the normalizer *)

Normalized == npc \in {"normalized", "renormalized"}

\* the line is argument fields followed by the token `rest`
ArgsThen(line, rest) ==
    /\ Len(rest) < Len(line)
    /\ IsArgs(SubSeq(line, 1, Len(line) - Len(rest)))
    /\ SubSeq(line, Len(line) - Len(rest) + 1, Len(line)) = rest

Suffixes(line) == {SubSeq(line, i, Len(line)) : i \in 1..Len(line)}

HasBang(s) == \E i \in 1..Len(s) : s[i] = "!"

\* C5: a line of argument fields followed by a bare address is rendered as
\* the address, unchanged.
C5_AddressUnchanged ==
    (Normalized /\ Len(stack_trace) = 1) =>
        \A rest \in Suffixes(stack_trace[1]) :
            (ArgsThen(stack_trace[1], rest) /\ IsAddress(rest)) =>
                output_trace = <<rest>>

\* C6: normalizing a normalized stack gives the same stack.
C6_Idempotent == npc = "renormalized" => renormalized = output_trace

\* the text of a rendered frame after its last "!"
RenderedLocation(frame) ==
    LET bangs == {i \in 1..Len(frame) : frame[i] = "!"}
        last == CHOOSE i \in bangs : \A j \in bangs : j <= i
    IN  SubSeq(frame, last + 1, Len(frame))

\* C7: a module line without "!" is rendered as module!unknown, and a module
\* line that ends with "!" (an empty location) is rendered with a location
\* other than unknown.
C7_EmptyLocationDistinct ==
    (Normalized /\ Len(stack_trace) = 1) =>
        \A rest \in Suffixes(stack_trace[1]) :
            (ArgsThen(stack_trace[1], rest) /\ IsModule(rest) /\ ~IsAddress(rest)) =>
                /\ ~HasBang(rest) =>
                      output_trace = <<NormalizeChromeSymbol(rest) \o <<"!">> \o unknown>>
                /\ (rest[Len(rest)] = "!" /\ ~HasBang(SubSeq(rest, 1, Len(rest) - 1))
                    /\ Len(rest) > 1) =>
                      /\ Len(output_trace) = 1
                      /\ RenderedLocation(output_trace[1]) # unknown

\* the renderings of the lines that match, in the order of the input
RenderedMatches(trace) ==
    LET sel == SelectSeq(trace, Matches)
    IN  [i \in 1..Len(sel) |-> FrameText(sel[i])]

IsBlankLine(line) == \A i \in 1..Len(line) : line[i] \in Whitespace

\* no argument field opens the line
IsHeaderLine(line) ==
    /\ line # <<>>
    /\ \A a \in 1..Len(line) : ~IsArgs(SubSeq(line, 1, a))

\* after the argument fields comes a token that is no argument field and
\* holds no "!", and after it a space and further text
HasTrailingText(line) ==
    \E a \in 1..Len(line), m \in 1..Len(line) :
        /\ a < m /\ m < Len(line)
        /\ IsArgs(SubSeq(line, 1, a))
        /\ IsModule(SubSeq(line, a + 1, m))
        /\ \E i \in (a + 1)..m : line[i] \notin HexDigit
        /\ ~HasBang(SubSeq(line, a + 1, m))
        /\ line[m + 1] = " "
        /\ \E i \in (m + 1)..Len(line) : line[i] # " "

\* C8: the output is the renderings of the matching lines in input order, as
\* many as there are matching lines; blank lines, header lines and lines with
\* text after the module or address token match nothing.
C8_OnlyMatchingLines ==
    Normalized =>
        /\ output_trace = RenderedMatches(stack_trace)
        /\ Len(output_trace) =
              Cardinality({i \in 1..Len(stack_trace) : Matches(stack_trace[i])})
        /\ \A i \in 1..Len(stack_trace) :
              (\/ IsBlankLine(stack_trace[i])
               \/ IsHeaderLine(stack_trace[i])
               \/ HasTrailingText(stack_trace[i])) => ~Matches(stack_trace[i])

C8_Witness ==
    /\ Normalized
    /\ Len(stack_trace) = 2
    /\ Len(output_trace) = 1
    /\ ~Matches(stack_trace[1])
    /\ HasTrailingText(stack_trace[1])

----------------------------------------------------------------------------
(* Properties of the report *)

\* C11: a returned report holds a crash_stack that is not empty.
C11_CrashStackNonEmpty ==
    report # None => report[1].crash_stack # <<>>

\* the call at the error-info dump has returned and no later call has begun
ErrorInfoReturned ==
    /\ Returned
    /\ stdin_log[Len(stdin_log)].verb = _GET_BAD_ACCESS_INFO_COMMAND

\* C12: whatever the reply to the error-info dump, a reply of no lines
\* included, stripping its header does not fail: bad_access_info is the reply
\* without its first line (empty for a reply of at most one line) and the
\* session goes on to the alloc stack.
C12_StripNeverFails ==
    ErrorInfoReturned =>
        /\ outcome # "IndexError"
        /\ bad_access_info = SubSeq(lines, 2, Len(lines))
        /\ pc = "alloc" \/ outcome = "IOError"

----------------------------------------------------------------------------
(* The order of the commands of a session *)

VerbsWritten == [i \in 1..Len(stdin_log) |-> stdin_log[i].verb]

SymbolVerbs == {".sympath", ".reload /fi chrome.dll",
                ".reload /fi syzyasan_rtl.dll", ".symfix"}

ExpectedVerbs ==
    (IF pdb_path # None
     THEN <<".sympath", ".reload /fi chrome.dll",
            ".reload /fi syzyasan_rtl.dll", ".symfix">>
     ELSE <<>>)
    \o <<".lines", "kv", ".frame", "dt error_info",
         _GET_ALLOC_STACK_COMMAND, _GET_FREE_STACK_COMMAND,
         ".ecxr", "kv", "q">>

\* C13: a session that returns a report has written exactly the setup
\* commands (only with a symbol path, which is the argument of the first),
\* then .lines, kv, .frame, the error-info dump, the alloc and free
\* dereferences, .ecxr, kv and q, each once; q is never followed by another
\* write, and the wait for the debugger's exit comes only after q.
C13_CommandSequence ==
    /\ report # None =>
          /\ VerbsWritten = ExpectedVerbs
          /\ pdb_path # None => stdin_log[1].arg = pdb_path[1]
          /\ waited
    /\ \A i \in Written("q") : i = Len(stdin_log)
    /\ waited => Written("q") # {}

C13_Witness ==
    /\ report # None
    /\ pdb_path # None
    /\ Len(stdin_log) = 13

\* C14: without a symbol path none of .sympath, .reload and .symfix is
\* written; with or without one, .lines is never written twice, it has been
\* written once the session is past that call, and it precedes every kv.
C14_LinesOnceBeforeKv ==
    /\ pdb_path = None => \A v \in SymbolVerbs : Written(v) = {}
    /\ Cardinality(Written(".lines")) <= 1
    /\ \A k \in Written("kv") : \E i \in Written(".lines") : i < k
    /\ pc \in {"kv", "frame", "dt", "alloc", "free", "ecxr", "kv2", "quit",
               "quit_notfound", "wait", "wait_notfound", "done"}
          => Cardinality(Written(".lines")) = 1

C14_Witness ==
    /\ pdb_path = None
    /\ outcome = "report"
    /\ Cardinality(Written("kv")) = 2
    /\ Written(".lines") = {1}

\* the call at `site` returns in this step; lines' is then its reply
ReplyAt(site) == pc = site /\ io = "read" /\ io' = "write"

\* C15: the fields of a report are set from these replies and from no other:
\* bad_access_info is the error-info reply without its first line, alloc_stack
\* and free_stack are the normalized replies to the alloc and free
\* dereferences (an empty free reply gives an empty free_stack), crash_stack
\* is the normalized reply to the second kv, the one after .ecxr, and the
\* report returned holds these four values.
C15_ReportFields ==
    [][/\ ReplyAt("dt") /\ lines' # <<>> => bad_access_info' = Tail(lines')
       /\ ReplyAt("alloc") => alloc_stack' = NormalizeStackTrace(lines')
       /\ ReplyAt("free") =>
             /\ free_stack' = NormalizeStackTrace(lines')
             /\ lines' = <<>> => free_stack' = <<>>
       /\ ReplyAt("kv2") => crash_stack' = NormalizeStackTrace(lines')
       /\ bad_access_info' # bad_access_info => ReplyAt("dt")
       /\ alloc_stack' # alloc_stack => ReplyAt("alloc")
       /\ free_stack' # free_stack => ReplyAt("free")
       /\ crash_stack' # crash_stack => ReplyAt("kv2")
       /\ report' # report =>
             /\ Len(report') = 1
             /\ report'[1].bad_access_info = bad_access_info
             /\ report'[1].alloc_stack = alloc_stack
             /\ report'[1].free_stack = free_stack
             /\ report'[1].crash_stack = crash_stack
             /\ Written(".ecxr") # {}
             /\ \A k \in Written(".ecxr") : k + 1 \in Written("kv")
      ]_vars

C15_Witness ==
    /\ report # None
    /\ report[1].crash_stack # NormalizeStackTrace(asan_crash_stack)
    /\ report[1].free_stack = <<>>
    /\ report[1].bad_access_info = <<>>

----------------------------------------------------------------------------
(* Properties of NormalizeChromeSymbol *)

\* C16: normalizing a symbol twice gives what normalizing it once gives, and
\* the canonical token 'chrome_dll' is left as it is.
C16_SymbolIdempotent ==
    /\ npc = "symbol_renormalized" => renormalized_symbol = normalized_symbol
    /\ (npc = "symbol_normalized" /\ sym = chrome_dll)
          => normalized_symbol = chrome_dll

----------------------------------------------------------------------------
(* Framing across the calls of a session *)

\* the lines still in the output pipe that the debugger printed for the
\* commands up to the n-th, its banner included
UnreadUpTo(n) ==
    {i \in 1..Len(stdout_pipe) : stdout_pipe[i].of <= n}

\* C17: while the debugger prints the marker only in the echo that ends a
\* command's output, a call of _Command returns with nothing unread of what
\* the debugger printed for its command or an earlier one and with that
\* command's output complete, and the lines a call can read are those of its
\* own command (before the first command's, the banner).
C17_FramingSynchronized ==
    ~marker_printed =>
        /\ (Returned /\ Written("q") = {}) =>
              /\ UnreadUpTo(Len(stdin_log)) = {}
              /\ echoes_read = Len(stdin_log)
              /\ dbg_taken = Len(stdin_log)
              /\ dbg_state # "busy"
        /\ io = "read" =>
              /\ echoes_read = Len(stdin_log) - 1
              /\ UnreadUpTo(Len(stdin_log) - 1) =
                    IF Len(stdin_log) = 1 THEN UnreadUpTo(0) ELSE {}

C17_Witness ==
    /\ ~marker_printed
    /\ Returned
    /\ Len(stdin_log) = 2
    /\ Len(raw_lines) = 2
    /\ dbg_lines = 2

----------------------------------------------------------------------------
(* Deadlock over pipes of finite capacity *)

\* the debugger is in a write to a full pipe: to its error pipe, to its
\* output pipe after 'q', or to its output pipe with a command's echo due
DbgBlocked ==
    \/ dbg_state \in {"blocked_stderr", "blocked_stdout"}
    \/ dbg_state = "busy" /\ Len(stdout_pipe) >= PipeCapacity

\* the driver is in readline() on an empty output pipe or in wait()
DriverBlocked ==
    \/ pc \in CommandSites /\ io = "read" /\ stdout_pipe = <<>>
    \/ pc \in {"wait", "wait_notfound"}

\* C18: with pipes of finite capacity and a debugger that answers every
\* command and exits after 'q', the debugger is never blocked writing to a
\* full pipe while the driver is blocked reading its output or waiting for
\* its exit.
C18_NoPipeDeadlock ==
    ~(DbgBlocked /\ DriverBlocked)

====
